---- MODULE Spec2Model ----
(***************************************************************************)
(* The in-memory ledger of rich-bank.js: the module-level array `accounts` *)
(* and the five exported operations on it (getAccountById, createAccount,  *)
(* depositMoney, withdrawMoney, transferMoney).                            *)
(*                                                                         *)
(* JavaScript values are modelled as records [type, kind, num, chars], so  *)
(* that the run-time checks of the validators (typeof, Number.isFinite,    *)
(* Number.isSafeInteger, String.prototype.trim) have something to decide.  *)
(*                                                                         *)
(* Balances and amounts are JavaScript Numbers, that is binary floating    *)
(* point values: every `+=` and `-=` rounds its exact result to the        *)
(* nearest representable value, ties to even, and overflows to Infinity.   *)
(* The model keeps exactly that arithmetic in a small format: multiples of *)
(* 50 with a significand of MantBits bits (binary64 has 53) that overflow  *)
(* to Infinity at 1200, so that the whole number line can be explored.     *)
(* With MantBits = 4 every multiple of 50 below 800 is exact and the       *)
(* values from 800 to 1100 are 100 apart, as the doubles from 2^53 to 2^54 *)
(* are 2 apart: 800 + 50 here is 2^53 + 1 there.                           *)
(***************************************************************************)
EXTENDS Integers, Sequences, FiniteSets, TLC

VARIABLES
    accounts,   \* the array `accounts`: a sequence of [id, owner, balance]
    pc,         \* the caller's position: "idle" or "returned"
    last        \* what the caller holds of its last call: the operation, the error, the value

vars == <<accounts, pc, last>>

(***************************************************************************)
(* Bound of the number format: the bits of the significand.                *)
(***************************************************************************)
MantBits == 4

(***************************************************************************)
(* JavaScript Number arithmetic.                                           *)
(***************************************************************************)
RECURSIVE Pow2(_)
Pow2(n) == IF n = 0 THEN 1 ELSE 2 * Pow2(n - 1)

\* The spacing of representable values whose exponent is e.
Ulp(e) == 50 * Pow2(e)

\* The value an overflowing result rounds to; larger than every finite value.
Infinity == 24 * Ulp(0)

Abs(x) == IF x < 0 THEN -x ELSE x

\* The least exponent, from e on, whose significand holds the magnitude m.
RECURSIVE Exponent(_, _)
Exponent(m, e) == IF m < Pow2(MantBits) * Ulp(e) THEN e ELSE Exponent(m, e + 1)

\* Round to nearest, ties to even, of the magnitude m >= 0.
RoundMagnitude(m) ==
    LET u == Ulp(Exponent(m, 0))
        q == m \div u
        r == m % u
        nearest == IF 2 * r < u THEN q * u
                   ELSE IF 2 * r > u THEN (q + 1) * u
                   ELSE IF q % 2 = 0 THEN q * u
                   ELSE (q + 1) * u
    IN  IF nearest >= Infinity THEN Infinity ELSE nearest

Round(x) == IF x < 0 THEN -RoundMagnitude(-x) ELSE RoundMagnitude(x)

IsInfinite(x) == Abs(x) >= Infinity

\* a + b and a - b on Numbers (never Infinity - Infinity here: an infinite
\* amount does not pass assertValidAmount).
Add(a, b) ==
    IF IsInfinite(a) THEN a
    ELSE IF IsInfinite(b) THEN b
    ELSE Round(a + b)

Sub(a, b) ==
    IF IsInfinite(a) THEN a
    ELSE IF IsInfinite(b) THEN -b
    ELSE Round(a - b)

(***************************************************************************)
(* JavaScript values passed as arguments.                                  *)
(***************************************************************************)
Number(n) == [type |-> "number", kind |-> "integer", num |-> n, chars |-> <<>>]
\* n + 0.5
Fraction(n) == [type |-> "number", kind |-> "fraction", num |-> n, chars |-> <<>>]
\* 2^53, the least integer above Number.MAX_SAFE_INTEGER: in a significand of
\* MantBits bits, 2^MantBits.
UnsafeInteger == [type |-> "number", kind |-> "unsafe", num |-> Pow2(MantBits), chars |-> <<>>]
PosInfinity == [type |-> "number", kind |-> "infinite", num |-> Infinity, chars |-> <<>>]
String(s) == [type |-> "string", kind |-> "none", num |-> 0, chars |-> s]
Array(s) == [type |-> "object", kind |-> "none", num |-> 0, chars |-> s]

Alice == <<"A", "l", "i", "c", "e">>
Bob == <<"B", "o", "b">>
Charlie == <<"C", "h", "a", "r", "l", "i", "e">>

\* Number.isSafeInteger(v) and Number.isFinite(v): false for every non-number.
IsSafeInteger(v) == v.type = "number" /\ v.kind = "integer"
IsFinite(v) == v.type = "number" /\ v.kind \in {"integer", "unsafe", "fraction"}

\* a.id === id, for the stored (integer) id of an account.
StrictEquals(storedId, v) ==
    v.type = "number" /\ v.kind \in {"integer", "unsafe"} /\ v.num = storedId

\* String.prototype.trim on the characters of a string.
IsSpace(c) == c \in {" ", "\t", "\n"}

RECURSIVE TrimStart(_)
TrimStart(s) ==
    IF s # <<>> /\ IsSpace(Head(s)) THEN TrimStart(Tail(s)) ELSE s

RECURSIVE TrimEnd(_)
TrimEnd(s) ==
    IF s # <<>> /\ IsSpace(s[Len(s)]) THEN TrimEnd(SubSeq(s, 1, Len(s) - 1)) ELSE s

Trim(s) == TrimEnd(TrimStart(s))

(***************************************************************************)
(* Results of a call: the error thrown ("none" when it returns), the value *)
(* returned, and the array after the call.                                 *)
(***************************************************************************)
Undefined == [kind |-> "undefined", a |-> 0, b |-> 0]
Null == [kind |-> "null", a |-> 0, b |-> 0]
Ref(i) == [kind |-> "account", a |-> i, b |-> 0]         \* the object accounts[i]
Balance(n) == [kind |-> "number", a |-> n, b |-> 0]
FromTo(f, t) == [kind |-> "pair", a |-> f, b |-> t]      \* { from: f, to: t }

Throw(e, accs) == [err |-> e, ret |-> Undefined, accounts |-> accs]
Return(v, accs) == [err |-> "none", ret |-> v, accounts |-> accs]

(***************************************************************************)
(* helpers                                                                 *)
(***************************************************************************)
\* TRUE when the helper returns, FALSE when it throws.
assertValidAccountId(id) == ~(~IsSafeInteger(id) \/ id.num <= 0)

assertValidOwner(owner) == ~(owner.type # "string" \/ Len(Trim(owner.chars)) = 0)

assertValidAmount(amount) == ~(~IsFinite(amount) \/ amount.num <= 0)

(***************************************************************************)
(* core                                                                    *)
(***************************************************************************)
\* accounts.find(a => a.id === id) ?? null
Find(accs, id) ==
    LET hits == {i \in DOMAIN accs : StrictEquals(accs[i].id, id)}
    IN  IF hits = {}
        THEN Null
        ELSE Ref(CHOOSE i \in hits : \A j \in hits : i <= j)

\* getAccountById that throws when no account has the id.
getAccountById_absentIsError(accs, id) ==
    IF ~assertValidAccountId(id) THEN Throw("InvalidAccountId", accs)
    ELSE IF Find(accs, id) = Null THEN Throw("AccountNotFound", accs)
    ELSE Return(Find(accs, id), accs)

\* getAccountById without its call of assertValidAccountId.
getAccountById_noIdCheck(accs, id) == Return(Find(accs, id), accs)

getAccountById(accs, id) ==
    IF ~assertValidAccountId(id)
    THEN Throw("InvalidAccountId", accs)
    ELSE Return(Find(accs, id), accs)

\* createAccount that does not look for an account with the id before it pushes.
createAccount_noExistenceCheck(accs, newAccountId, newAccountOwner) ==
    IF ~assertValidAccountId(newAccountId) THEN Throw("InvalidAccountId", accs)
    ELSE IF ~assertValidOwner(newAccountOwner) THEN Throw("InvalidOwner", accs)
    ELSE LET pushed == Append(accs, [id |-> newAccountId.num,
                                     owner |-> Trim(newAccountOwner.chars),
                                     balance |-> 0])
         IN  Return(Find(pushed, newAccountId), pushed)

\* createAccount that validates the owner before the id.
createAccount_ownerFirst(accs, newAccountId, newAccountOwner) ==
    IF ~assertValidOwner(newAccountOwner) THEN Throw("InvalidOwner", accs)
    ELSE IF ~assertValidAccountId(newAccountId) THEN Throw("InvalidAccountId", accs)
    ELSE IF Find(accs, newAccountId) # Null THEN Throw("AlreadyExists", accs)
    ELSE LET pushed == Append(accs, [id |-> newAccountId.num,
                                     owner |-> Trim(newAccountOwner.chars),
                                     balance |-> 0])
         IN  Return(Find(pushed, newAccountId), pushed)

\* createAccount that stores the new account over the last one of the array
\* instead of pushing it.
createAccount_overwritesLast(accs, newAccountId, newAccountOwner) ==
    IF ~assertValidAccountId(newAccountId) THEN Throw("InvalidAccountId", accs)
    ELSE IF ~assertValidOwner(newAccountOwner) THEN Throw("InvalidOwner", accs)
    ELSE IF Find(accs, newAccountId) # Null THEN Throw("AlreadyExists", accs)
    ELSE LET stored == [accs EXCEPT ![Len(accs)] = [id |-> newAccountId.num,
                                                    owner |-> Trim(newAccountOwner.chars),
                                                    balance |-> 0]]
         IN  Return(Find(stored, newAccountId), stored)

\* createAccount that stores the owner as given, without trim().
createAccount_noTrim(accs, newAccountId, newAccountOwner) ==
    IF ~assertValidAccountId(newAccountId) THEN Throw("InvalidAccountId", accs)
    ELSE IF ~assertValidOwner(newAccountOwner) THEN Throw("InvalidOwner", accs)
    ELSE IF Find(accs, newAccountId) # Null THEN Throw("AlreadyExists", accs)
    ELSE LET pushed == Append(accs, [id |-> newAccountId.num,
                                     owner |-> newAccountOwner.chars,
                                     balance |-> 0])
         IN  Return(Find(pushed, newAccountId), pushed)

createAccount(accs, newAccountId, newAccountOwner) ==
    IF ~assertValidAccountId(newAccountId) THEN Throw("InvalidAccountId", accs)
    ELSE IF ~assertValidOwner(newAccountOwner) THEN Throw("InvalidOwner", accs)
    ELSE LET found == getAccountById(accs, newAccountId)
         IN  IF found.err # "none" THEN Throw(found.err, accs)
             ELSE IF found.ret # Null THEN Throw("AlreadyExists", accs)
             ELSE LET pushed == Append(accs, [id |-> newAccountId.num,
                                              owner |-> Trim(newAccountOwner.chars),
                                              balance |-> 0])
                  IN  Return(getAccountById(pushed, newAccountId).ret, pushed)

\* depositMoney that returns the balance it found, not the one it leaves.
depositMoney_returnsBalanceBefore(accs, accountId, amount) ==
    IF ~assertValidAmount(amount) THEN Throw("InvalidAmount", accs)
    ELSE LET account == getAccountById(accs, accountId)
         IN  IF account.err # "none" THEN Throw(account.err, accs)
             ELSE IF account.ret = Null THEN Throw("AccountNotFound", accs)
             ELSE LET i == account.ret.a
                      after == [accs EXCEPT ![i].balance = Add(@, amount.num)]
                  IN  Return(Balance(accs[i].balance), after)

depositMoney(accs, accountId, amount) ==
    IF ~assertValidAmount(amount) THEN Throw("InvalidAmount", accs)
    ELSE LET account == getAccountById(accs, accountId)
         IN  IF account.err # "none" THEN Throw(account.err, accs)
             ELSE IF account.ret = Null THEN Throw("AccountNotFound", accs)
             ELSE LET i == account.ret.a
                      after == [accs EXCEPT ![i].balance = Add(@, amount.num)]
                  IN  Return(Balance(after[i].balance), after)

\* withdrawMoney that looks the account up before it validates the amount.
withdrawMoney_accountFirst(accs, accountId, amount) ==
    LET account == getAccountById(accs, accountId)
    IN  IF account.err # "none" THEN Throw(account.err, accs)
        ELSE IF account.ret = Null THEN Throw("AccountNotFound", accs)
        ELSE IF ~assertValidAmount(amount) THEN Throw("InvalidAmount", accs)
        ELSE LET i == account.ret.a
             IN  IF amount.num > accs[i].balance
                 THEN Throw("InsufficientFunds", accs)
                 ELSE LET after == [accs EXCEPT ![i].balance = Sub(@, amount.num)]
                      IN  Return(Balance(after[i].balance), after)

\* withdrawMoney without the comparison of the amount with the balance.
withdrawMoney_noFundsCheck(accs, accountId, amount) ==
    IF ~assertValidAmount(amount) THEN Throw("InvalidAmount", accs)
    ELSE LET account == getAccountById(accs, accountId)
         IN  IF account.err # "none" THEN Throw(account.err, accs)
             ELSE IF account.ret = Null THEN Throw("AccountNotFound", accs)
             ELSE LET i == account.ret.a
                      after == [accs EXCEPT ![i].balance = Sub(@, amount.num)]
                  IN  Return(Balance(after[i].balance), after)

withdrawMoney(accs, accountId, amount) ==
    IF ~assertValidAmount(amount) THEN Throw("InvalidAmount", accs)
    ELSE LET account == getAccountById(accs, accountId)
         IN  IF account.err # "none" THEN Throw(account.err, accs)
             ELSE IF account.ret = Null THEN Throw("AccountNotFound", accs)
             ELSE LET i == account.ret.a
                  IN  IF amount.num > accs[i].balance
                      THEN Throw("InsufficientFunds", accs)
                      ELSE LET after == [accs EXCEPT ![i].balance = Sub(@, amount.num)]
                           IN  Return(Balance(after[i].balance), after)

\* transferMoney that debits the source as soon as it has found it, before it
\* looks the destination up.
transferMoney_debitsBeforeDestinationLookup(accs, fromAccountId, toAccountId, amount) ==
    IF ~assertValidAmount(amount) THEN Throw("InvalidAmount", accs)
    ELSE IF ~assertValidAccountId(fromAccountId) THEN Throw("InvalidAccountId", accs)
    ELSE IF Find(accs, fromAccountId) = Null THEN Throw("SourceNotFound", accs)
    ELSE LET f == Find(accs, fromAccountId).a
         IN  IF amount.num > accs[f].balance THEN Throw("InsufficientFunds", accs)
             ELSE LET debited == [accs EXCEPT ![f].balance = Sub(@, amount.num)]
                  IN  IF ~assertValidAccountId(toAccountId)
                      THEN Throw("InvalidAccountId", debited)
                      ELSE IF Find(accs, toAccountId) = Null
                      THEN Throw("DestinationNotFound", debited)
                      ELSE LET t == Find(accs, toAccountId).a
                               credited == [debited EXCEPT ![t].balance = Add(@, amount.num)]
                           IN  Return(FromTo(credited[f].balance, credited[t].balance),
                                      credited)

\* transferMoney that debits the source first and then throws if that made
\* the balance negative.
transferMoney_fundsCheckedAfterDebit(accs, fromAccountId, toAccountId, amount) ==
    IF ~assertValidAmount(amount) THEN Throw("InvalidAmount", accs)
    ELSE IF ~assertValidAccountId(fromAccountId) THEN Throw("InvalidAccountId", accs)
    ELSE IF Find(accs, fromAccountId) = Null THEN Throw("SourceNotFound", accs)
    ELSE IF ~assertValidAccountId(toAccountId) THEN Throw("InvalidAccountId", accs)
    ELSE IF Find(accs, toAccountId) = Null THEN Throw("DestinationNotFound", accs)
    ELSE LET f == Find(accs, fromAccountId).a
             t == Find(accs, toAccountId).a
             debited == [accs EXCEPT ![f].balance = Sub(@, amount.num)]
             credited == [debited EXCEPT ![t].balance = Add(@, amount.num)]
         IN  IF debited[f].balance < 0 THEN Throw("InsufficientFunds", debited)
             ELSE Return(FromTo(credited[f].balance, credited[t].balance), credited)

\* transferMoney that looks the destination up before the source.
transferMoney_destinationFirst(accs, fromAccountId, toAccountId, amount) ==
    IF ~assertValidAmount(amount) THEN Throw("InvalidAmount", accs)
    ELSE IF ~assertValidAccountId(toAccountId) THEN Throw("InvalidAccountId", accs)
    ELSE IF Find(accs, toAccountId) = Null THEN Throw("DestinationNotFound", accs)
    ELSE IF ~assertValidAccountId(fromAccountId) THEN Throw("InvalidAccountId", accs)
    ELSE IF Find(accs, fromAccountId) = Null THEN Throw("SourceNotFound", accs)
    ELSE LET f == Find(accs, fromAccountId).a
             t == Find(accs, toAccountId).a
         IN  IF amount.num > accs[f].balance THEN Throw("InsufficientFunds", accs)
             ELSE LET debited == [accs EXCEPT ![f].balance = Sub(@, amount.num)]
                      credited == [debited EXCEPT ![t].balance = Add(@, amount.num)]
                  IN  Return(FromTo(credited[f].balance, credited[t].balance), credited)

transferMoney(accs, fromAccountId, toAccountId, amount) ==
    IF ~assertValidAmount(amount) THEN Throw("InvalidAmount", accs)
    ELSE LET fromAccount == getAccountById(accs, fromAccountId)
         IN  IF fromAccount.err # "none" THEN Throw(fromAccount.err, accs)
             ELSE IF fromAccount.ret = Null THEN Throw("SourceNotFound", accs)
             ELSE LET toAccount == getAccountById(accs, toAccountId)
                  IN  IF toAccount.err # "none" THEN Throw(toAccount.err, accs)
                      ELSE IF toAccount.ret = Null THEN Throw("DestinationNotFound", accs)
                      ELSE LET f == fromAccount.ret.a
                               t == toAccount.ret.a
                           IN  IF amount.num > accs[f].balance
                               THEN Throw("InsufficientFunds", accs)
                               ELSE LET debited == [accs EXCEPT ![f].balance = Sub(@, amount.num)]
                                        credited == [debited EXCEPT ![t].balance = Add(@, amount.num)]
                                    IN  Return(FromTo(credited[f].balance, credited[t].balance),
                                               credited)

(***************************************************************************)
(* The arguments the callers pass.                                         *)
(***************************************************************************)
\* well-formed ids (4 is never created), then 0, 1.5 and "1", then 2^53
WellFormedIds == {Number(1), Number(2), Number(3), Number(4)}
MalformedIds == {Number(0), Fraction(1), String(<<"1">>)}
Ids == WellFormedIds \cup MalformedIds \cup {UnsafeInteger}
NewIds == Ids \ {Number(4)}

Owners == {String(Charlie), String(<<" ">> \o Charlie \o <<" ">>), String(<<>>),
           String(<<" ", " ">>), Array(Charlie)}

ValidAmounts == {Number(50), Number(100), Number(200), Number(300)}
InvalidAmounts == {Number(0), Number(-50), PosInfinity, String(<<"3", "0", "0">>)}
Amounts == ValidAmounts \cup InvalidAmounts

(***************************************************************************)
(* The state machine: a caller makes one call at a time and looks at what  *)
(* it returned or threw before making the next one.                        *)
(***************************************************************************)
NoCall == [op |-> "none", err |-> "none", ret |-> Undefined]

\* const accounts = [ ... ]
SeedAccounts ==
    << [id |-> 1, owner |-> Alice, balance |-> 500],
       [id |-> 2, owner |-> Bob, balance |-> 300] >>

Init ==
    /\ accounts = SeedAccounts
    /\ pc = "idle"
    /\ last = NoCall

\* What the caller holds of a call of op whose outcome is r.
Outcome(op, r) == [op |-> op, err |-> r.err, ret |-> r.ret]

GetAccountById ==
    /\ pc = "idle"
    /\ \E id \in Ids :
        LET r == getAccountById(accounts, id)
        IN  accounts' = r.accounts /\ last' = Outcome("getAccountById", r)
    /\ pc' = "returned"

CreateAccount ==
    /\ pc = "idle"
    /\ \E id \in NewIds, owner \in Owners :
        LET r == createAccount(accounts, id, owner)
        IN  accounts' = r.accounts /\ last' = Outcome("createAccount", r)
    /\ pc' = "returned"

DepositMoney ==
    /\ pc = "idle"
    /\ \E id \in Ids, amount \in Amounts :
        LET r == depositMoney(accounts, id, amount)
        IN  accounts' = r.accounts /\ last' = Outcome("depositMoney", r)
    /\ pc' = "returned"

WithdrawMoney ==
    /\ pc = "idle"
    /\ \E id \in Ids, amount \in Amounts :
        LET r == withdrawMoney(accounts, id, amount)
        IN  accounts' = r.accounts /\ last' = Outcome("withdrawMoney", r)
    /\ pc' = "returned"

TransferMoney ==
    /\ pc = "idle"
    /\ \E from \in Ids, to \in Ids, amount \in Amounts :
        LET r == transferMoney(accounts, from, to, amount)
        IN  accounts' = r.accounts /\ last' = Outcome("transferMoney", r)
    /\ pc' = "returned"

\* The caller has seen the result (the catch / console.log of the sanity checks).
CallerContinues ==
    /\ pc = "returned"
    /\ pc' = "idle"
    /\ last' = NoCall
    /\ UNCHANGED accounts

Next ==
    \/ GetAccountById
    \/ CreateAccount
    \/ DepositMoney
    \/ WithdrawMoney
    \/ TransferMoney
    \/ CallerContinues

Spec == Init /\ [][Next]_vars

(***************************************************************************)
(* Vocabulary of the properties.                                           *)
(***************************************************************************)
\* The error kinds of the specification, by the error the code throws.
ErrorKind(e) ==
    CASE e \in {"InvalidAccountId", "InvalidOwner", "InvalidAmount"} -> "InvalidArgument"
      [] e \in {"AccountNotFound", "SourceNotFound", "DestinationNotFound"} -> "NotFound"
      [] e = "AlreadyExists" -> "AlreadyExists"
      [] e = "InsufficientFunds" -> "InsufficientFunds"
      [] OTHER -> "none"

\* An id that is not a number, not an integer, or not positive.
MalformedId(v) == v.type # "number" \/ v.kind \notin {"integer", "unsafe"} \/ v.num <= 0

\* A positive integer that is at most Number.MAX_SAFE_INTEGER = 2^53 - 1.
SafeId(v) == ~MalformedId(v) /\ v.kind = "integer"

\* An owner that is not a string, or is empty or blank.
MalformedOwner(v) == v.type # "string" \/ \A k \in DOMAIN v.chars : IsSpace(v.chars[k])

\* An amount that is not a number, not finite, zero or negative.
MalformedAmount(v) ==
    v.type # "number" \/ v.kind \notin {"integer", "fraction"} \/ v.num <= 0

\* The positions in accs of the accounts whose id is the well-formed id v.
Held(accs, v) == {i \in DOMAIN accs : ~MalformedId(v) /\ accs[i].id = v.num}
Has(accs, v) == Held(accs, v) # {}
Slot(accs, v) == CHOOSE i \in Held(accs, v) : TRUE

\* a + b over the reals extended with Infinity.
Exact(a, b) ==
    IF IsInfinite(a) THEN a
    ELSE IF IsInfinite(b) THEN b
    ELSE a + b

RECURSIVE Total(_)
Total(accs) ==
    IF accs = <<>> THEN 0 ELSE Exact(Head(accs).balance, Total(Tail(accs)))

\* Every account of accs but the ones at the positions in S is the same in after.
SameBut(accs, after, S) ==
    /\ Len(after) = Len(accs)
    /\ \A i \in DOMAIN accs :
        /\ after[i].id = accs[i].id
        /\ after[i].owner = accs[i].owner
        /\ i \notin S => after[i].balance = accs[i].balance

\* t is s without the white space around it, and is not empty.
IsTrimOf(t, s) ==
    /\ t # <<>>
    /\ ~IsSpace(t[1])
    /\ ~IsSpace(t[Len(t)])
    /\ \E i \in 0..Len(s) :
        /\ i + Len(t) <= Len(s)
        /\ SubSeq(s, i + 1, i + Len(t)) = t
        /\ \A k \in 1..Len(s) : (k <= i \/ k > i + Len(t)) => IsSpace(s[k])

\* The step is the call of op whose outcome is r.
StepIs(op, r) ==
    /\ pc = "idle"
    /\ pc' = "returned"
    /\ last' = Outcome(op, r)
    /\ accounts' = r.accounts

(***************************************************************************)
(* C1: in every state reachable from the seed state by any calls, failing  *)
(* or not, the balance of every account is >= 0.                           *)
(***************************************************************************)
C1_BalancesNonNegative == \A i \in DOMAIN accounts : accounts[i].balance >= 0

\* A withdrawal of the whole balance has returned 0.
C1_Witness ==
    /\ pc = "returned"
    /\ last.op = "withdrawMoney"
    /\ last.err = "none"
    /\ last.ret = Balance(0)
    /\ \E i \in DOMAIN accounts : accounts[i].balance = 0 /\ accounts[i].id \in {1, 2}

(***************************************************************************)
(* C2: a successful transferMoney(fromId, toId, amount), fromId = toId     *)
(* included, leaves the sum of the two balances and the total of all       *)
(* balances as they were.                                                  *)
(***************************************************************************)
C2_TransferConserves ==
    [][\A from \in Ids, to \in Ids, amount \in Amounts :
        LET r == transferMoney(accounts, from, to, amount)
            f == Slot(accounts, from)
            t == Slot(accounts, to)
        IN  (StepIs("transferMoney", r) /\ r.err = "none") =>
                /\ Exact(accounts'[f].balance, accounts'[t].balance)
                     = Exact(accounts[f].balance, accounts[t].balance)
                /\ Total(accounts') = Total(accounts)]_vars

(***************************************************************************)
(* C3: a call that fails leaves the account set as it was: the same number *)
(* of accounts and the same id, owner and balance for each.                *)
(***************************************************************************)
C3_FailedCallChangesNothing ==
    [][(pc' = "returned" /\ last'.err # "none") =>
            /\ accounts' = accounts
            /\ ErrorKind(last'.err) \in {"InvalidArgument", "NotFound", "AlreadyExists",
                                         "InsufficientFunds"}]_vars

\* A transfer has failed on its destination, after the source was found.
C3_Witness ==
    /\ pc = "returned"
    /\ last.op = "transferMoney"
    /\ last.err = "DestinationNotFound"
    /\ accounts = SeedAccounts

(***************************************************************************)
(* C4: no two accounts share an id, and createAccount with an id that is   *)
(* already present always fails with AlreadyExists, the number of accounts *)
(* unchanged.                                                              *)
(***************************************************************************)
UniqueIds ==
    \A i \in DOMAIN accounts, j \in DOMAIN accounts :
        accounts[i].id = accounts[j].id => i = j

C4_DuplicateCreateAlreadyExists ==
    /\ []UniqueIds
    /\ [][\A id \in NewIds, owner \in Owners :
            (StepIs("createAccount", createAccount(accounts, id, owner)) /\ Has(accounts, id)) =>
                /\ last'.err = "AlreadyExists"
                /\ Len(accounts') = Len(accounts)]_vars

\* C4 as amended: with an id that is already present createAccount always
\* fails, the number of accounts unchanged: with AlreadyExists when the owner
\* is well formed, with InvalidArgument when it is not.
C4_DuplicateCreateFails ==
    /\ UniqueIds
    /\ pc = "idle" =>
        \A id \in NewIds, owner \in Owners :
            LET r == createAccount(accounts, id, owner)
            IN  Has(accounts, id) =>
                    /\ r.err = IF MalformedOwner(owner) THEN "InvalidOwner" ELSE "AlreadyExists"
                    /\ Len(r.accounts) = Len(accounts)

\* Account 3 was created earlier and a later createAccount has failed on an
\* id in use.
C4_Witness ==
    /\ pc = "returned"
    /\ last.op = "createAccount"
    /\ last.err = "AlreadyExists"
    /\ Len(accounts) = 3
    /\ accounts[3].id = 3

(***************************************************************************)
(* C5: transferMoney with a valid amount checks the source before the      *)
(* destination: a well-formed fromId of no account fails with NotFound     *)
(* (source) whatever toId is; NotFound (destination) is reported only when *)
(* the source exists; InsufficientFunds only when both accounts exist.     *)
(***************************************************************************)
C5_SourceCheckedFirst ==
    [][\A from \in Ids, to \in Ids, amount \in Amounts :
        (/\ StepIs("transferMoney", transferMoney(accounts, from, to, amount))
         /\ ~MalformedAmount(amount)) =>
            /\ (~MalformedId(from) /\ ~Has(accounts, from)) => last'.err = "SourceNotFound"
            /\ last'.err = "DestinationNotFound" => Has(accounts, from)
            /\ last'.err = "InsufficientFunds" => Has(accounts, from) /\ Has(accounts, to)]_vars

\* C5 as amended: ... a fromId of no account that is a positive integer of at
\* most 2^53 - 1 fails with NotFound (source) whatever toId is; a greater
\* integer is rejected by the validation of the id, as a malformed one is.
C5_SourceCheckedAfterIdValidation ==
    pc = "idle" =>
        \A from \in Ids, to \in Ids, amount \in Amounts :
            LET r == transferMoney(accounts, from, to, amount)
            IN  ~MalformedAmount(amount) =>
                    /\ (SafeId(from) /\ ~Has(accounts, from)) => r.err = "SourceNotFound"
                    /\ ~SafeId(from) => r.err = "InvalidAccountId"
                    /\ r.err = "DestinationNotFound" => Has(accounts, from)
                    /\ r.err = "InsufficientFunds" => Has(accounts, from) /\ Has(accounts, to)

\* A transfer has failed on its source while no well-formed id but 1 and 2 is
\* of an account: the destination was 1, 2, absent or malformed.
C5_Witness ==
    /\ pc = "returned"
    /\ last.op = "transferMoney"
    /\ last.err = "SourceNotFound"
    /\ Len(accounts) = 2
    /\ \E to \in Ids : SafeId(to) /\ ~Has(accounts, to)

(***************************************************************************)
(* C6: a call in which an id argument is malformed fails with              *)
(* InvalidArgument, whatever the other arguments are; for transferMoney    *)
(* also when only toId is malformed and fromId is a well-formed id of no   *)
(* account.                                                                *)
(***************************************************************************)
MalformedIdRejectedWithOneId ==
    pc = "idle" =>
        /\ \A id \in Ids :
            MalformedId(id) =>
                /\ ErrorKind(getAccountById(accounts, id).err) = "InvalidArgument"
                /\ \A amount \in Amounts :
                    /\ ErrorKind(depositMoney(accounts, id, amount).err) = "InvalidArgument"
                    /\ ErrorKind(withdrawMoney(accounts, id, amount).err) = "InvalidArgument"
        /\ \A id \in NewIds, owner \in Owners :
            MalformedId(id) =>
                ErrorKind(createAccount(accounts, id, owner).err) = "InvalidArgument"

C6_MalformedIdIsInvalidArgument ==
    /\ []MalformedIdRejectedWithOneId
    /\ [][\A from \in Ids, to \in Ids, amount \in Amounts :
            (/\ StepIs("transferMoney", transferMoney(accounts, from, to, amount))
             /\ MalformedId(from) \/ MalformedId(to)) =>
                ErrorKind(last'.err) = "InvalidArgument"]_vars

\* C6 as amended: ... fails with InvalidArgument, except that transferMoney
\* with a valid amount, a fromId of no account that is a positive integer of
\* at most 2^53 - 1, and a malformed toId fails with NotFound (source): toId
\* is validated after the source account has been found.
C6_MalformedIdRejectedAfterSource ==
    /\ MalformedIdRejectedWithOneId
    /\ pc = "idle" =>
        \A from \in Ids, to \in Ids, amount \in Amounts :
            LET r == transferMoney(accounts, from, to, amount)
            IN  (MalformedId(from) \/ MalformedId(to)) =>
                    IF ~MalformedAmount(amount) /\ SafeId(from) /\ ~Has(accounts, from)
                    THEN r.err = "SourceNotFound"
                    ELSE ErrorKind(r.err) = "InvalidArgument"

\* A transfer has failed on a malformed id.
C6_Witness ==
    /\ pc = "returned"
    /\ last.op = "transferMoney"
    /\ last.err = "InvalidAccountId"

(***************************************************************************)
(* C7: withdrawMoney(id, amount) on an existing account with a valid       *)
(* amount fails with InsufficientFunds exactly when amount > balance;      *)
(* otherwise it succeeds, decreases the balance of the account by exactly  *)
(* amount, returns the new balance and changes no other account.           *)
(***************************************************************************)
C7_WithdrawExactly ==
    [][\A id \in Ids, amount \in Amounts :
        LET r == withdrawMoney(accounts, id, amount)
            i == Slot(accounts, id)
        IN  (/\ StepIs("withdrawMoney", r)
             /\ Has(accounts, id)
             /\ ~MalformedAmount(amount)) =>
                IF amount.num > accounts[i].balance
                THEN last'.err = "InsufficientFunds"
                ELSE /\ last'.err = "none"
                     /\ accounts'[i].balance = Exact(accounts[i].balance, -amount.num)
                     /\ last'.ret = Balance(accounts'[i].balance)
                     /\ SameBut(accounts, accounts', {i})]_vars

(***************************************************************************)
(* C8: transferMoney(fromId, toId, amount) with both accounts present and  *)
(* a valid amount fails with InsufficientFunds exactly when amount > the   *)
(* source balance, and then changes neither balance; otherwise it          *)
(* succeeds, debits the source and credits the destination by exactly      *)
(* amount, returns the two new balances and changes no third account.      *)
(***************************************************************************)
\* The array after the source at f was debited and then the destination at t
\* credited by exactly n (one after the other, also when f = t).
DebitedThenCredited(accs, f, t, n) ==
    LET debited == [accs EXCEPT ![f].balance = Exact(@, -n)]
    IN  [debited EXCEPT ![t].balance = Exact(@, n)]

C8_TransferExactly ==
    [][\A from \in Ids, to \in Ids, amount \in Amounts :
        LET r == transferMoney(accounts, from, to, amount)
            f == Slot(accounts, from)
            t == Slot(accounts, to)
        IN  (/\ StepIs("transferMoney", r)
             /\ Has(accounts, from)
             /\ Has(accounts, to)
             /\ ~MalformedAmount(amount)) =>
                IF amount.num > accounts[f].balance
                THEN last'.err = "InsufficientFunds" /\ accounts' = accounts
                ELSE /\ last'.err = "none"
                     /\ accounts' = DebitedThenCredited(accounts, f, t, amount.num)
                     /\ last'.ret = FromTo(accounts'[f].balance, accounts'[t].balance)]_vars

(***************************************************************************)
(* C9: a successful createAccount(id, owner) adds exactly one account,     *)
(* with the given id, the given owner without the white space around it    *)
(* (so not empty) and balance 0; the accounts that existed keep their id,  *)
(* owner and balance; the account returned is the one inserted.            *)
(***************************************************************************)
C9_CreateAddsOneAccount ==
    pc = "idle" =>
        \A id \in NewIds, owner \in Owners :
            LET r == createAccount(accounts, id, owner)
                n == Len(accounts)
            IN  r.err = "none" =>
                    /\ Len(r.accounts) = n + 1
                    /\ SubSeq(r.accounts, 1, n) = accounts
                    /\ r.accounts[n + 1].id = id.num
                    /\ IsTrimOf(r.accounts[n + 1].owner, owner.chars)
                    /\ r.accounts[n + 1].balance = 0
                    /\ r.ret = Ref(n + 1)
                    /\ Held(r.accounts, id) = {n + 1}

\* createAccount(3, ...) has returned the third account, owner "Charlie".
C9_Witness ==
    /\ pc = "returned"
    /\ last.op = "createAccount"
    /\ last.err = "none"
    /\ last.ret = Ref(3)
    /\ accounts = Append(SeedAccounts, [id |-> 3, owner |-> Charlie, balance |-> 0])

(***************************************************************************)
(* C10: a successful depositMoney(id, amount) increases the balance of the *)
(* account by exactly amount, returns the resulting balance and leaves the *)
(* other accounts and the number of accounts as they were; from the seed   *)
(* state deposit(1, 300) returns 800 and account 2 stays at 300.           *)
(***************************************************************************)
C10_DepositExactly ==
    /\ [][\A id \in Ids, amount \in Amounts :
            LET r == depositMoney(accounts, id, amount)
                i == Slot(accounts, id)
            IN  (StepIs("depositMoney", r) /\ r.err = "none") =>
                    /\ accounts'[i].balance = Exact(accounts[i].balance, amount.num)
                    /\ last'.ret = Balance(accounts'[i].balance)
                    /\ SameBut(accounts, accounts', {i})]_vars
    /\ [][(/\ accounts = SeedAccounts
           /\ StepIs("depositMoney", depositMoney(accounts, Number(1), Number(300)))) =>
                last'.ret = Balance(800) /\ accounts'[2].balance = 300]_vars

(***************************************************************************)
(* C11: getAccountById on a well-formed id of no account returns null      *)
(* rather than failing, returns the matching account when there is one,    *)
(* fails with InvalidArgument only when the id is malformed, and in all    *)
(* three cases leaves the accounts unchanged.                              *)
(***************************************************************************)
C11_AbsentIsNull ==
    [][\A id \in Ids :
        StepIs("getAccountById", getAccountById(accounts, id)) =>
            /\ accounts' = accounts
            /\ ErrorKind(last'.err) = "InvalidArgument" <=> MalformedId(id)
            /\ last'.err \in {"none", "InvalidAccountId"}
            /\ (~MalformedId(id) /\ ~Has(accounts, id)) =>
                    last'.err = "none" /\ last'.ret = Null
            /\ Has(accounts, id) =>
                    last'.err = "none" /\ last'.ret = Ref(Slot(accounts, id))]_vars

\* C11 as amended: getAccountById on an id of no account that is a positive
\* integer of at most 2^53 - 1 returns null rather than failing, returns the
\* matching account when there is one, fails with InvalidArgument when the
\* id is malformed or is an integer above 2^53 - 1 and only then, and in all
\* cases leaves the accounts unchanged.
C11_AbsentSafeIdIsNull ==
    pc = "idle" =>
        \A id \in Ids :
            LET r == getAccountById(accounts, id)
            IN  /\ r.accounts = accounts
                /\ r.err = (IF SafeId(id) THEN "none" ELSE "InvalidAccountId")
                /\ (SafeId(id) /\ ~Has(accounts, id)) => r.ret = Null
                /\ Has(accounts, id) =>
                        /\ r.ret = Ref(Slot(accounts, id))
                        /\ accounts[r.ret.a].id = id.num

\* getAccountById(3) has returned null: no account 3 was created yet.
C11_Witness ==
    /\ pc = "returned"
    /\ last.op = "getAccountById"
    /\ last.err = "none"
    /\ last.ret = Null
    /\ Len(accounts) = 2

(***************************************************************************)
(* C12: after any calls from the seed state the total of the balances is   *)
(* 800 plus the amounts of the successful deposits minus the amounts of    *)
(* the successful withdrawals.  The total is 800 in the seed state, so     *)
(* this is the same as: every successful depositMoney adds exactly its     *)
(* amount to the total, every successful withdrawMoney takes exactly its   *)
(* amount from it, and every other call, failed ones included, leaves the  *)
(* total as it was.                                                        *)
(***************************************************************************)
C12_TotalIsNetOfDepositsAndWithdrawals ==
    /\ Total(SeedAccounts) = 800
    /\ [][/\ \A id \in Ids, amount \in Amounts :
                LET r == depositMoney(accounts, id, amount)
                IN  (StepIs("depositMoney", r) /\ r.err = "none") =>
                        Total(accounts') = Exact(Total(accounts), amount.num)
          /\ \A id \in Ids, amount \in Amounts :
                LET r == withdrawMoney(accounts, id, amount)
                IN  (StepIs("withdrawMoney", r) /\ r.err = "none") =>
                        Total(accounts') = Exact(Total(accounts), -amount.num)
          /\ (\/ last'.op \in {"createAccount", "getAccountById", "transferMoney"}
              \/ last'.err # "none") =>
                        Total(accounts') = Total(accounts)]_vars

(***************************************************************************)
(* C13: from the seed state createAccount(3, "Charlie"), depositMoney(3,   *)
(* 200), withdrawMoney(3, 50), transferMoney(3, 2, 100) succeed one after  *)
(* the other, return 200, then 150, then { from: 50, to: 400 }, and leave  *)
(* account 3 at 50, account 2 at 400 and account 1 at 500.                 *)
(***************************************************************************)
ScenarioEnd ==
    << [id |-> 1, owner |-> Alice, balance |-> 500],
       [id |-> 2, owner |-> Bob, balance |-> 400],
       [id |-> 3, owner |-> Charlie, balance |-> 50] >>

C13_CreateDepositWithdrawTransfer ==
    (pc = "idle" /\ accounts = SeedAccounts) =>
        LET created == createAccount(accounts, Number(3), String(Charlie))
            deposited == depositMoney(created.accounts, Number(3), Number(200))
            withdrawn == withdrawMoney(deposited.accounts, Number(3), Number(50))
            transferred == transferMoney(withdrawn.accounts, Number(3), Number(2), Number(100))
        IN  /\ created.err = "none"
            /\ deposited.err = "none" /\ deposited.ret = Balance(200)
            /\ withdrawn.err = "none" /\ withdrawn.ret = Balance(150)
            /\ transferred.err = "none" /\ transferred.ret = FromTo(50, 400)
            /\ transferred.accounts = ScenarioEnd
            /\ transferred.accounts[2].balance = accounts[2].balance + 100

\* The transfer of the scenario has returned { from: 50, to: 400 }.
C13_Witness ==
    /\ pc = "returned"
    /\ last = Outcome("transferMoney", Return(FromTo(50, 400), ScenarioEnd))
    /\ accounts = ScenarioEnd

(***************************************************************************)
(* C14: transferMoney is one step.  The caller sees the accounts only      *)
(* before a call and after it has returned or thrown; a call of            *)
(* transferMoney that returns has applied the debit of line 93 and then    *)
(* the credit of line 94, and one that throws has applied neither: no      *)
(* state the caller sees has the debit without the credit or the credit    *)
(* without the debit.                                                      *)
(***************************************************************************)
\* The array after `fromAccount.balance -= amount` alone, and after it and
\* then `toAccount.balance += amount`.
DebitApplied(accs, f, n) == [accs EXCEPT ![f].balance = Sub(@, n)]
BothApplied(accs, f, t, n) == [DebitApplied(accs, f, n) EXCEPT ![t].balance = Add(@, n)]

C14_TransferIsOneStep ==
    /\ pc \in {"idle", "returned"}
    /\ pc = "idle" =>
        \A from \in Ids, to \in Ids, amount \in Amounts :
            LET r == transferMoney(accounts, from, to, amount)
            IN  IF r.err = "none"
                THEN r.accounts = BothApplied(accounts, Slot(accounts, from),
                                              Slot(accounts, to), amount.num)
                ELSE r.accounts = accounts

\* transferMoney(1, 2, 50) has returned on the seed state: 450 and 350.
C14_Witness ==
    /\ pc = "returned"
    /\ last.op = "transferMoney"
    /\ last.ret = FromTo(450, 350)
    /\ accounts = BothApplied(SeedAccounts, 1, 2, 50)
    /\ accounts # DebitApplied(SeedAccounts, 1, 50)

(***************************************************************************)
(* C15: transferMoney(x, x, amount) on an account x with a valid amount    *)
(* <= its balance succeeds, leaves the balance of x as it was and returns  *)
(* from and to both equal to that balance; with amount > balance it fails  *)
(* with InsufficientFunds.                                                 *)
(***************************************************************************)
C15_SelfTransferKeepsBalance ==
    [][\A x \in Ids, amount \in Amounts :
        LET r == transferMoney(accounts, x, x, amount)
            i == Slot(accounts, x)
        IN  (/\ StepIs("transferMoney", r)
             /\ Has(accounts, x)
             /\ ~MalformedAmount(amount)) =>
                IF amount.num > accounts[i].balance
                THEN last'.err = "InsufficientFunds" /\ accounts' = accounts
                ELSE /\ last'.err = "none"
                     /\ accounts' = accounts
                     /\ last'.ret = FromTo(accounts[i].balance, accounts[i].balance)]_vars

(***************************************************************************)
(* C16: the accounts only grow: no call removes an account or changes the  *)
(* id or the owner of one, accounts 1 (Alice) and 2 (Bob) are always       *)
(* there, and the number of accounts changes only by a successful          *)
(* createAccount, which adds exactly one.                                  *)
(***************************************************************************)
SeedAccountsPresent ==
    /\ \E i \in DOMAIN accounts : accounts[i].id = 1 /\ accounts[i].owner = Alice
    /\ \E i \in DOMAIN accounts : accounts[i].id = 2 /\ accounts[i].owner = Bob

C16_AccountsOnlyGrow ==
    /\ []SeedAccountsPresent
    /\ [][/\ \A i \in DOMAIN accounts :
                /\ i \in DOMAIN accounts'
                /\ accounts'[i].id = accounts[i].id
                /\ accounts'[i].owner = accounts[i].owner
          /\ Len(accounts') # Len(accounts) =>
                /\ last'.op = "createAccount"
                /\ last'.err = "none"
                /\ Len(accounts') = Len(accounts) + 1
          /\ (last'.op = "createAccount" /\ last'.err = "none") =>
                Len(accounts') = Len(accounts) + 1]_vars

\* Account 3 was created, and a later transfer between the seed accounts has
\* returned: the three accounts are there with their ids and owners.
C16_Witness ==
    /\ pc = "returned"
    /\ last.op = "transferMoney"
    /\ last.err = "none"
    /\ Len(accounts) = 3
    /\ accounts[1].balance # 500
    /\ accounts[3].balance = 0
    /\ [i \in 1..3 |-> <<accounts[i].id, accounts[i].owner>>]
         = <<(<<1, Alice>>), (<<2, Bob>>), (<<3, Charlie>>)>>

(***************************************************************************)
(* C17: depositMoney, withdrawMoney and transferMoney validate the amount  *)
(* before they validate or look up any id: with a malformed amount (not    *)
(* finite, zero, negative or not a number) the call fails with             *)
(* InvalidArgument for the amount, also when an id is malformed or of no   *)
(* account and when the balance would not suffice.                         *)
(***************************************************************************)
C17_AmountValidatedFirst ==
    pc = "idle" =>
        \A amount \in Amounts :
            MalformedAmount(amount) =>
                \A id \in Ids :
                    /\ depositMoney(accounts, id, amount) = Throw("InvalidAmount", accounts)
                    /\ withdrawMoney(accounts, id, amount) = Throw("InvalidAmount", accounts)
                    /\ \A to \in Ids :
                        transferMoney(accounts, id, to, amount) = Throw("InvalidAmount", accounts)

\* A withdrawal from account 4, which does not exist, of Infinity, which is
\* more than any balance, has failed on the amount.
C17_Witness ==
    /\ pc = "returned"
    /\ ~Has(accounts, Number(4))
    /\ last = Outcome("withdrawMoney", withdrawMoney(accounts, Number(4), PosInfinity))
    /\ last.err = "InvalidAmount"

(***************************************************************************)
(* C18: createAccount validates its arguments before it looks the id up:   *)
(* with an id that is already present and a malformed owner (empty, blank  *)
(* or not a string) it fails with InvalidArgument, not AlreadyExists; with *)
(* a malformed id it fails with InvalidArgument for the id, whatever the   *)
(* owner is.                                                               *)
(***************************************************************************)
C18_CreateValidatesBeforeExistence ==
    pc = "idle" =>
        \A id \in NewIds, owner \in Owners :
            LET r == createAccount(accounts, id, owner)
            IN  /\ (Has(accounts, id) /\ MalformedOwner(owner)) =>
                        r = Throw("InvalidOwner", accounts)
                /\ MalformedId(id) => r = Throw("InvalidAccountId", accounts)
                /\ r.err = "AlreadyExists" => ~MalformedId(id) /\ ~MalformedOwner(owner)

\* createAccount(1, "") has failed on the owner, account 1 being there.
C18_Witness ==
    /\ pc = "returned"
    /\ Has(accounts, Number(1))
    /\ last = Outcome("createAccount", createAccount(accounts, Number(1), String(<<>>)))
    /\ last.err = "InvalidOwner"

====
